---- MODULE Spec2Model ----
(***************************************************************************)
(* Finder's Keeper: the conversation-thread engine.                        *)
(*                                                                         *)
(* Three Lambda handlers share the FindersKeeper-Messages table:           *)
(*   send_contact.lambda_handler     first message of a thread (POST       *)
(*                                   /contact), recipient = item owner     *)
(*   send_reply.send_reply_message_in_existing_conversation_thread         *)
(*                                   reply in a thread, with the four-step *)
(*                                   lookup of a prior message             *)
(*   get_messages.lambda_handler     groups a user's messages into threads *)
(* The table's RecipientIndex (a global secondary index) is eventually     *)
(* consistent: a stored message becomes visible to index queries only      *)
(* after it has propagated, while a table scan sees every stored message.  *)
(*                                                                         *)
(* Strings are sequences of character codes where the code compares,       *)
(* sorts or concatenates them (ids, thread ids, createdAt); opaque texts   *)
(* (titles, names, e-mail parts) are TLA+ strings.                         *)
(***************************************************************************)
EXTENDS Integers, Sequences, FiniteSets, TLC

VARIABLES
    items,           \* table FindersKeeper-Items: set of item records
    messages,        \* table FindersKeeper-Messages: set of message records
    recipientIndex,  \* ids of the messages visible through RecipientIndex
    now,             \* the clock datetime.utcnow() reads, in ticks
    writesLeft,      \* put_item calls on the messages table still allowed
    last,            \* the latest handler invocation: its request and response
    pending          \* invocations in progress that take more than one
                     \* step (send_reply, update_item), by invocation

vars == <<items, messages, recipientIndex, now, writesLeft, last, pending>>

---------------------------------------------------------------------------
(* Bounds of the model *)

\* messages written in one run
MaxMsgs == 2

\* range of the clock, in ticks
MaxTime == 1

\* clock ticks per second (the clock's sub-second resolution)
TicksPerSec == 2

(* Program constants *)

\* len(message_text) > 1000
MaxMessageLength == 1000

\* scan(..., Limit=10)
ScanLimit == 10

\* character codes
HASH == 35
DOT == 46
DIGIT0 == 48
ZED == 90

---------------------------------------------------------------------------
(* Strings as sequences of character codes *)

Min(a, b) == IF a < b THEN a ELSE b

\* s < t in Python's string order (lexicographic by code point)
RECURSIVE StrLess(_, _)
StrLess(s, t) ==
    IF t = <<>> THEN FALSE
    ELSE IF s = <<>> THEN TRUE
    ELSE IF Head(s) # Head(t) THEN Head(s) < Head(t)
    ELSE StrLess(Tail(s), Tail(t))

\* sorted([a, b])
SortedPairAsGiven(a, b) == <<a, b>>

SortedPair(a, b) == IF StrLess(b, a) THEN <<b, a>> ELSE <<a, b>>

\* datetime.utcnow().isoformat() + 'Z' for the instant t (in ticks): the
\* seconds are fixed-width, and isoformat() prints the fractional part
\* only when it is not zero.
Isoformat(t) ==
    LET sec  == t \div TicksPerSec
        frac == t % TicksPerSec
        whole == <<DIGIT0 + (sec \div 10), DIGIT0 + (sec % 10)>>
    IN  IF frac = 0
        THEN whole \o <<ZED>>
        ELSE whole \o <<DOT, DIGIT0 + frac>> \o <<ZED>>

---------------------------------------------------------------------------
(* Identities, items and requests *)

\* Ids are uuid strings: of several characters, none of them '#'.  The ids
\* of the model are "a", "b", "ab" and "1", "1a".
U1 == <<97>>
U2 == <<98>>
U3 == <<97, 98>>
Users == {U1, U2, U3}

I1 == <<49>>
I2 == <<49, 97>>
ItemIds == {I1, I2}

\* an absent or empty body field ("field not in body or not body[field]")
Missing == <<>>

NoName == ""
NoEmail == <<"", "">>

\* The claims of the Cognito authorizer; e-mail addresses are
\* <<local part, domain>>.
Ann == [valid |-> TRUE, sub |-> U1, email |-> <<"ann", "x.org">>, name |-> NoName]
Bob == [valid |-> TRUE, sub |-> U2, email |-> <<"bob", "x.org">>, name |-> "Bob"]
Cy  == [valid |-> TRUE, sub |-> U3, email |-> <<"cy", "x.org">>, name |-> NoName]

\* U1 after a change of address: the e-mail address is a mutable attribute
\* of the account, the sub is not.
Ann2 == [valid |-> TRUE, sub |-> U1, email |-> <<"ann2", "x.org">>, name |-> NoName]

Claims == {Ann, Bob, Cy}

\* an event without requestContext.authorizer.claims
NoClaims == [valid |-> FALSE, sub |-> Missing, email |-> NoEmail, name |-> NoName]

\* claims.get('name', user_email.split('@')[0])
UserName(c) == IF c.name # NoName THEN c.name ELSE c.email[1]

\* The POST /items requests of the model, each with the uuid it is given.
ItemPosts ==
    { [id |-> I1, title |-> "keys", status |-> "lost", claims |-> Ann],
      [id |-> I2, title |-> "bag", status |-> "found", claims |-> Bob] }

\* Requests.  A message text is modelled by its length; Missing and 0 stand
\* for a field that is absent or empty.
WellFormedContacts ==
    [claims : Claims, itemId : ItemIds, message : {MaxMessageLength}]

WellFormedReplies ==
    [claims : Claims, itemId : ItemIds, recipientUserId : Users,
     message : {MaxMessageLength}]

\* a request with one thing wrong: no claims, a field missing, a text too long
BrokenContacts(r) ==
    { [r EXCEPT !.claims = NoClaims], [r EXCEPT !.itemId = Missing],
      [r EXCEPT !.message = 0], [r EXCEPT !.message = MaxMessageLength + 1] }

BrokenReplies(r) ==
    { [r EXCEPT !.claims = NoClaims], [r EXCEPT !.itemId = Missing],
      [r EXCEPT !.recipientUserId = Missing],
      [r EXCEPT !.message = 0], [r EXCEPT !.message = MaxMessageLength + 1] }

\* the same request with a text of one character, and of two more than the
\* limit
EdgeLengths(r) ==
    { [r EXCEPT !.message = n] : n \in {1, MaxMessageLength + 2} }

\* U1 writes about I1 under the new address
ContactRequests ==
    WellFormedContacts \cup
    {[claims |-> Ann2, itemId |-> I1, message |-> MaxMessageLength]} \cup
    UNION {EdgeLengths(r) :
             r \in {w \in WellFormedContacts :
                      w.itemId = I1 /\ w.claims.sub = U2}} \cup
    UNION {BrokenContacts(r) :
             r \in {w \in WellFormedContacts :
                      w.itemId = I1 /\ w.claims.sub = U2}}

ReplyRequests ==
    WellFormedReplies \cup
    UNION {EdgeLengths(r) :
             r \in {w \in WellFormedReplies :
                      /\ w.itemId = I1
                      /\ w.claims.sub = U2
                      /\ w.recipientUserId = U1}} \cup
    UNION {BrokenReplies(r) :
             r \in {w \in WellFormedReplies :
                      /\ w.itemId = I1
                      /\ w.claims.sub = U2
                      /\ w.recipientUserId \in {U1, U2}}}

\* put_item on the messages table succeeds or raises ClientError
Faults == {"none", "put"}

\* the body of a response that carries no thread list
NoBody ==
    [user |-> Missing, threads |-> <<>>,
     totalThreads |-> 0, totalMessages |-> 0, unreadCount |-> 0]

\* the invocations that may run at the same time
Invocations == {1, 2}

\* the failures that report an error of the store: "Database error: ..."
\* of send_reply, "AWS service error: ..." of send_contact
StoreErrors == {"Database error", "AWS service error"}

\* the request of a response that carries none
NoRequest ==
    [claims |-> NoClaims, itemId |-> Missing, recipientUserId |-> Missing,
     message |-> 0]

NoResponse ==
    [op |-> "none", outcome |-> "none", messageId |-> 0, via |-> 0, ctx |-> 0,
     lookups |-> <<>>, request |-> NoRequest, body |-> NoBody]

---------------------------------------------------------------------------
(* The two tables *)

\* get_item(Key={'id': item_id}): the set holding the item, or {}
GetItem(itemId) == {i \in items : i.id = itemId}

\* An item record is the map of its attributes; of the attributes of an
\* item the model keeps those the message handlers read, and `resolved`.
\* item.get(a, default)
ItemAttr(item, a, default) == IF a \in DOMAIN item THEN item[a] ELSE default

\* The order in which DynamoDB returns the items of the messages table: by
\* the hash of the partition key (the uuid), unrelated to the write order.
HashKey(id) == (id * 7) % 13

InTableOrder(S) ==
    [i \in 1..Cardinality(S) |->
        CHOOSE x \in S :
            Cardinality({y \in S : HashKey(y.id) < HashKey(x.id)}) = i - 1]

\* query(IndexName='RecipientIndex', recipientUserId = uid): the messages
\* addressed to uid that the index already holds
QueryByRecipient(uid) ==
    InTableOrder({m \in messages :
                    m.recipientUserId = uid /\ m.id \in recipientIndex})

\* scan(FilterExpression='senderUserId = :uid') of get_messages
ScanBySender(uid) == InTableOrder({m \in messages : m.senderUserId = uid})

\* scan(FilterExpression=..., Limit=10) of send_reply: DynamoDB reads at most
\* Limit items of the table and applies the filter to what it has read.
ScanConversation(itemId, uid1, uid2) ==
    LET table == InTableOrder(messages)
        page  == SubSeq(table, 1, Min(Len(table), ScanLimit))
    IN  SelectSeq(page, LAMBDA m :
            /\ m.itemId = itemId
            /\ \/ (m.senderUserId = uid1 /\ m.recipientUserId = uid2)
               \/ (m.senderUserId = uid2 /\ m.recipientUserId = uid1))

\* put_item(Item=record): the record takes the place of a stored item with
\* the same key
PutItem(record) == {m \in messages : m.id # record.id} \cup {record}

NewMessageIdReused ==
    IF messages = {} THEN 1 ELSE (CHOOSE m \in messages : TRUE).id

\* str(uuid.uuid4()): an id no stored message has
NewMessageId ==
    CHOOSE n \in 1..(Cardinality(messages) + 1) :
        /\ \A m \in messages : m.id # n
        /\ \A k \in 1..(n - 1) : \E m \in messages : m.id = k

Response(op, outcome, messageId, via, ctx) ==
    [op |-> op, outcome |-> outcome,
     messageId |-> messageId, via |-> via, ctx |-> ctx,
     lookups |-> <<>>, request |-> NoRequest, body |-> NoBody]

\* An invocation that ends in an error, or that only reads, leaves both
\* tables as they were: every table state it could be followed from is the
\* state before it.  A run is therefore followed up to the first such
\* response and stops there; it goes on after a response that reports a
\* stored message.
Open ==
    \/ last.op = "none"
    \/ last.outcome = "ok" /\ \E m \in messages : m.id = last.messageId

---------------------------------------------------------------------------
(* POST /items *)

CreateItem(p) ==
    /\ GetItem(p.id) = {}
    /\ items' = items \cup
         { [id |-> p.id, title |-> p.title, status |-> p.status,
            userId |-> p.claims.sub, userEmail |-> p.claims.email,
            userName |-> UserName(p.claims)] }
    /\ UNCHANGED <<messages, recipientIndex, now, writesLeft, last, pending>>

---------------------------------------------------------------------------
(* POST /contact *)

\* the exception the handler ends with, or "ok"
ContactOutcome(r) ==
    IF ~r.claims.valid THEN "Unauthorized: Valid authentication required"
    ELSE IF r.itemId = Missing \/ r.message = 0
         THEN "Validation error: Missing required field"
    ELSE IF r.message > MaxMessageLength
         THEN "Validation error: Message must be less than 1000 characters"
    ELSE IF GetItem(r.itemId) = {}
         THEN "Validation error: Item not found"
    ELSE LET item == CHOOSE i \in GetItem(r.itemId) : TRUE
         IN  IF ItemAttr(item, "userEmail", NoEmail) = r.claims.email
             THEN "Validation error: You cannot contact yourself"
             \* item['title'], item['status'], item['userId']: KeyError
             ELSE IF ~({"title", "status", "userId"} \subseteq DOMAIN item)
             THEN "Unauthorized: Valid authentication required"
             ELSE "ok"

ContactRecord(r, t) ==
    LET item == CHOOSE i \in GetItem(r.itemId) : TRUE
    IN  [id |-> NewMessageId,
         itemId |-> r.itemId,
         itemTitle |-> item.title,
         itemStatus |-> item.status,
         recipientUserId |-> item.userId,
         recipientEmail |-> ItemAttr(item, "userEmail", NoEmail),
         recipientName |-> ItemAttr(item, "userName", "Item Owner"),
         senderUserId |-> r.claims.sub,
         senderEmail |-> r.claims.email,
         senderName |-> UserName(r.claims),
         message |-> r.message,
         createdAt |-> Isoformat(t),
         read |-> FALSE]

\* the body of POST /contact as the request of a response
ContactAsRequest(r) ==
    [claims |-> r.claims, itemId |-> r.itemId, recipientUserId |-> Missing,
     message |-> r.message]

SendContact(r, t, fault) ==
    /\ \/ \* a raise before the record is built
          /\ t = now /\ fault = "none"
          /\ ContactOutcome(r) # "ok"
          /\ last' = [Response("send_contact", ContactOutcome(r), 0, 0, 0)
                        EXCEPT !.request = ContactAsRequest(r)]
          /\ UNCHANGED <<items, messages, recipientIndex, now, writesLeft, pending>>
       \/ \* put_item raises: except ClientError as db_error: print(...)
          /\ t = now /\ fault = "put"
          /\ ContactOutcome(r) = "ok"
          /\ last' = [Response("send_contact", "ok", NewMessageId, 0, 0)
                        EXCEPT !.request = ContactAsRequest(r)]
          /\ UNCHANGED <<items, messages, recipientIndex, now, writesLeft, pending>>
       \/ /\ t >= now /\ fault = "none"
          /\ writesLeft > 0
          /\ ContactOutcome(r) = "ok"
          /\ now' = t
          /\ writesLeft' = writesLeft - 1
          /\ messages' = PutItem(ContactRecord(r, t))
          /\ last' = [Response("send_contact", "ok", NewMessageId, 0, 0)
                        EXCEPT !.request = ContactAsRequest(r)]
          /\ UNCHANGED <<items, recipientIndex, pending>>

---------------------------------------------------------------------------
(* RecipientIndex catches up with one stored message *)

Propagate(id) ==
    /\ \E m \in messages : m.id = id
    /\ id \notin recipientIndex
    /\ recipientIndex' = recipientIndex \cup {id}
    /\ UNCHANGED <<items, messages, now, writesLeft, last, pending>>

---------------------------------------------------------------------------
(* POST /messages/reply *)

\* the names bound at module level in send_reply.py
ModuleGlobals ==
    {"dynamodb_resource", "user_to_user_messages_table_name",
     "user_to_user_messages_table"}

SelfMessageRejected == "You cannot send a message to yourself"

ReplyValidationNoLengthCheck(r) ==
    IF ~r.claims.valid THEN "Unauthorized: Valid authentication required"
    ELSE IF r.itemId = Missing \/ r.recipientUserId = Missing \/ r.message = 0
         THEN "Missing required field"
    ELSE IF r.recipientUserId = r.claims.sub
         THEN SelfMessageRejected
    ELSE "ok"

ReplyValidationStrictlyLess(r) ==
    IF ~r.claims.valid THEN "Unauthorized: Valid authentication required"
    ELSE IF r.itemId = Missing \/ r.recipientUserId = Missing \/ r.message = 0
         THEN "Missing required field"
    ELSE IF r.message >= MaxMessageLength
         THEN "Message must be less than 1000 characters"
    ELSE IF r.recipientUserId = r.claims.sub
         THEN SelfMessageRejected
    ELSE "ok"

ReplyValidationNoSelfCheck(r) ==
    IF ~r.claims.valid THEN "Unauthorized: Valid authentication required"
    ELSE IF r.itemId = Missing \/ r.recipientUserId = Missing \/ r.message = 0
         THEN "Missing required field"
    ELSE IF r.message > MaxMessageLength
         THEN "Message must be less than 1000 characters"
    ELSE "ok"

\* the checks made before any lookup: the exception raised, or "ok"
ReplyValidation(r) ==
    IF ~r.claims.valid THEN "Unauthorized: Valid authentication required"
    ELSE IF r.itemId = Missing \/ r.recipientUserId = Missing \/ r.message = 0
         THEN "Missing required field"
    ELSE IF r.message > MaxMessageLength
         THEN "Message must be less than 1000 characters"
    ELSE IF r.recipientUserId = r.claims.sub
         THEN SelfMessageRejected
    ELSE "ok"

Query1HitsAnyItem(r) ==
    SelectSeq(QueryByRecipient(r.claims.sub), LAMBDA m :
        m.senderUserId = r.recipientUserId)

Query1HitsOwnMessages(r) ==
    SelectSeq(QueryByRecipient(r.claims.sub), LAMBDA m :
        m.itemId = r.itemId /\ m.senderUserId = r.claims.sub)

\* step 1: the counterpart wrote to the caller about the item
Query1Hits(r) ==
    SelectSeq(QueryByRecipient(r.claims.sub), LAMBDA m :
        m.itemId = r.itemId /\ m.senderUserId = r.recipientUserId)

\* step 2: the caller wrote to the counterpart about the item
Query2Hits(r) ==
    SelectSeq(QueryByRecipient(r.recipientUserId), LAMBDA m :
        m.itemId = r.itemId /\ m.senderUserId = r.claims.sub)

\* step 3: the scan
ScanHits(r) == ScanConversation(r.itemId, r.claims.sub, r.recipientUserId)

\* step 4: the minimal context built from the item record
ItemContext(item) ==
    [id |-> 0, itemId |-> Missing,
     itemTitle |-> item.title, itemStatus |-> item.status,
     recipientUserId |-> Missing, recipientEmail |-> NoEmail,
     recipientName |-> "User",
     senderUserId |-> Missing, senderEmail |-> NoEmail, senderName |-> NoName,
     message |-> 0, createdAt |-> Missing, read |-> FALSE]

NoContext ==
    [id |-> 0, itemId |-> Missing, itemTitle |-> "", itemStatus |-> "",
     recipientUserId |-> Missing, recipientEmail |-> NoEmail,
     recipientName |-> NoName,
     senderUserId |-> Missing, senderEmail |-> NoEmail, senderName |-> NoName,
     message |-> 0, createdAt |-> Missing, read |-> FALSE]

\* an invocation of send_reply in progress: where it stands, its request,
\* the existing_message it holds and the step that gave it, and how it ended
PendingAt(stage, r, existing, via, outcome, messageId) ==
    [stage |-> stage, request |-> r, existing |-> existing, via |-> via,
     outcome |-> outcome, messageId |-> messageId]

\* no invocation in progress
NoPending ==
    [p \in Invocations |-> PendingAt("idle", NoRequest, NoContext, 0, "none", 0)]

ConversationNotFound ==
    "Conversation thread not found - please wait a few seconds and try again (GSI sync delay)"

FetchItemContextResourceBound(r) ==
    IF GetItem(r.itemId) # {}
    THEN [error |-> "none", via |-> 4,
          msg |-> ItemContext(CHOOSE i \in GetItem(r.itemId) : TRUE),
          lookups |-> <<1, 2, 3, 4>>]
    ELSE [error |-> ConversationNotFound, via |-> 4, msg |-> NoContext,
          lookups |-> <<1, 2, 3, 4>>]

\* step 4 starts with dynamodb.Table(...): the name `dynamodb` is not bound
\* in the module, so the step raises NameError before it reads the item.
FetchItemContext(r) ==
    IF "dynamodb" \notin ModuleGlobals
    THEN [error |-> "Internal server error: name 'dynamodb' is not defined",
          via |-> 4, msg |-> NoContext, lookups |-> <<1, 2, 3, 4>>]
    ELSE IF GetItem(r.itemId) # {}
    THEN [error |-> "none", via |-> 4,
          msg |-> ItemContext(CHOOSE i \in GetItem(r.itemId) : TRUE),
          lookups |-> <<1, 2, 3, 4>>]
    ELSE [error |-> ConversationNotFound, via |-> 4, msg |-> NoContext,
          lookups |-> <<1, 2, 3, 4>>]

FindExistingMessageNoStop(r) ==
    IF ScanHits(r) # <<>>
    THEN [error |-> "none", via |-> 3, msg |-> Head(ScanHits(r)),
          lookups |-> <<1, 2, 3>>]
    ELSE IF Query2Hits(r) # <<>>
    THEN [error |-> "none", via |-> 2, msg |-> Head(Query2Hits(r)),
          lookups |-> <<1, 2, 3>>]
    ELSE IF Query1Hits(r) # <<>>
    THEN [error |-> "none", via |-> 1, msg |-> Head(Query1Hits(r)),
          lookups |-> <<1, 2, 3>>]
    ELSE FetchItemContext(r)

\* the fallback chain: which step gave existing_message, or the error, and
\* the steps the invocation went through (1 and 2 the index queries, 3 the
\* scan, 4 the item fetch)
FindExistingMessage(r) ==
    IF Query1Hits(r) # <<>>
    THEN [error |-> "none", via |-> 1, msg |-> Head(Query1Hits(r)),
          lookups |-> <<1>>]
    ELSE IF Query2Hits(r) # <<>>
    THEN [error |-> "none", via |-> 2, msg |-> Head(Query2Hits(r)),
          lookups |-> <<1, 2>>]
    ELSE IF ScanHits(r) # <<>>
    THEN [error |-> "none", via |-> 3, msg |-> Head(ScanHits(r)),
          lookups |-> <<1, 2, 3>>]
    ELSE FetchItemContext(r)

ReplyRecordToPriorRecipient(r, t, existing) ==
    LET fromSender    == existing.senderUserId = r.recipientUserId
        fromRecipient == existing.recipientUserId = r.recipientUserId
    IN  [id |-> NewMessageId,
         itemId |-> r.itemId,
         itemTitle |-> existing.itemTitle,
         itemStatus |-> existing.itemStatus,
         recipientUserId |-> existing.recipientUserId,
         recipientEmail |-> IF fromSender THEN existing.senderEmail
                            ELSE IF fromRecipient THEN existing.recipientEmail
                            ELSE NoEmail,
         recipientName |-> IF fromSender THEN existing.senderName
                           ELSE IF fromRecipient THEN existing.recipientName
                           ELSE "User",
         senderUserId |-> r.claims.sub,
         senderEmail |-> r.claims.email,
         senderName |-> UserName(r.claims),
         message |-> r.message,
         createdAt |-> Isoformat(t),
         read |-> FALSE]

\* message_record of send_reply
ReplyRecord(r, t, existing) ==
    LET fromSender    == existing.senderUserId = r.recipientUserId
        fromRecipient == existing.recipientUserId = r.recipientUserId
    IN  [id |-> NewMessageId,
         itemId |-> r.itemId,
         itemTitle |-> existing.itemTitle,
         itemStatus |-> existing.itemStatus,
         recipientUserId |-> r.recipientUserId,
         recipientEmail |-> IF fromSender THEN existing.senderEmail
                            ELSE IF fromRecipient THEN existing.recipientEmail
                            ELSE NoEmail,
         recipientName |-> IF fromSender THEN existing.senderName
                           ELSE IF fromRecipient THEN existing.recipientName
                           ELSE "User",
         senderUserId |-> r.claims.sub,
         senderEmail |-> r.claims.email,
         senderName |-> UserName(r.claims),
         message |-> r.message,
         createdAt |-> Isoformat(t),
         read |-> FALSE]

SendReply(r, t, fault) ==
    LET valid == ReplyValidation(r)
        found == FindExistingMessage(r)
    IN  \/ \* a raise in validation
           /\ t = now /\ fault = "none"
           /\ valid # "ok"
           /\ last' = [Response("send_reply", valid, 0, 0, 0)
                         EXCEPT !.request = r]
           /\ UNCHANGED <<items, messages, recipientIndex, now, writesLeft, pending>>
        \/ \* the fallback chain ends without a context
           /\ t = now /\ fault = "none"
           /\ valid = "ok"
           /\ found.error # "none"
           /\ last' = [Response("send_reply", found.error, 0, found.via, 0)
                         EXCEPT !.lookups = found.lookups, !.request = r]
           /\ UNCHANGED <<items, messages, recipientIndex, now, writesLeft, pending>>
        \/ \* put_item raises ClientError
           /\ t = now /\ fault = "put"
           /\ valid = "ok"
           /\ found.error = "none"
           /\ last' = [Response("send_reply", "Database error", 0,
                                found.via, found.msg.id)
                         EXCEPT !.lookups = found.lookups, !.request = r]
           /\ UNCHANGED <<items, messages, recipientIndex, now, writesLeft, pending>>
        \/ /\ t >= now /\ fault = "none"
           /\ writesLeft > 0
           /\ valid = "ok"
           /\ found.error = "none"
           /\ now' = t
           /\ writesLeft' = writesLeft - 1
           /\ messages' = PutItem(ReplyRecord(r, t, found.msg))
           /\ last' = [Response("send_reply", "ok", NewMessageId,
                                found.via, found.msg.id)
                         EXCEPT !.lookups = found.lookups, !.request = r]
           /\ UNCHANGED <<items, recipientIndex, pending>>

---------------------------------------------------------------------------
(* DELETE /items, PATCH /items *)

\* delete_item.py: the owner deletes the item
DeleteItem(c, id) ==
    /\ c.valid
    /\ IF GetItem(id) = {}
       THEN /\ last' = Response("delete_item", "Item not found", 0, 0, 0)
            /\ UNCHANGED items
       ELSE LET item == CHOOSE i \in GetItem(id) : TRUE
            IN  IF ItemAttr(item, "userId", Missing) # c.sub
                THEN /\ last' = Response("delete_item",
                                "Forbidden: You can only delete your own items",
                                0, 0, 0)
                     /\ UNCHANGED items
                ELSE /\ items' = items \ GetItem(id)
                     /\ last' = Response("delete_item", "ok", 0, 0, 0)
    /\ UNCHANGED <<messages, recipientIndex, now, writesLeft, pending>>

\* update_item.py up to the ownership check: get_item, then the comparison
\* of userId with the caller
UpdateItemCheck(p, c, id) ==
    /\ pending[p].stage = "idle"
    /\ c.valid
    /\ IF GetItem(id) = {}
       THEN /\ last' = Response("update_item", "Item not found", 0, 0, 0)
            /\ UNCHANGED pending
       ELSE LET item == CHOOSE i \in GetItem(id) : TRUE
            IN  IF ItemAttr(item, "userId", Missing) # c.sub
                THEN /\ last' = Response("update_item",
                                "Forbidden: You can only update your own items",
                                0, 0, 0)
                     /\ UNCHANGED pending
                ELSE /\ pending' =
                          [pending EXCEPT ![p] =
                              PendingAt("update",
                                        [NoRequest EXCEPT !.claims = c,
                                                          !.itemId = id],
                                        NoContext, 0, "none", 0)]
                     /\ UNCHANGED last
    /\ UNCHANGED <<items, messages, recipientIndex, now, writesLeft>>

\* update_item(Key, UpdateExpression='SET resolved = ...') with no
\* ConditionExpression: DynamoDB adds the attributes to the item with that
\* key, and creates an item of the key and these attributes when the table
\* has none.
UpdateItemWrite(p) ==
    /\ pending[p].stage = "update"
    /\ LET id == pending[p].request.itemId
       IN  items' =
             IF GetItem(id) = {}
             THEN items \cup {[id |-> id, resolved |-> TRUE]}
             ELSE (items \ GetItem(id)) \cup
                  { [a \in DOMAIN i \cup {"resolved"} |->
                        IF a = "resolved" THEN TRUE ELSE i[a]] :
                    i \in GetItem(id) }
    /\ pending' = [pending EXCEPT ![p] = NoPending[p]]
    /\ last' = Response("update_item", "ok", 0, 0, 0)
    /\ UNCHANGED <<messages, recipientIndex, now, writesLeft>>

---------------------------------------------------------------------------
(* GET /messages *)

Reverse(s) == [k \in 1..Len(s) |-> s[Len(s) + 1 - k]]

\* messages_received + messages_sent; the index query runs with
\* ScanIndexForward=False
FetchMessagesReceivedOnly(uid) == Reverse(QueryByRecipient(uid))

FetchMessages(uid) == Reverse(QueryByRecipient(uid)) \o ScanBySender(uid)

ThreadIdNoSeparator(msg) ==
    LET user_ids == SortedPair(msg.senderUserId, msg.recipientUserId)
    IN  msg.itemId \o user_ids[1] \o user_ids[2]

ThreadIdNoItem(msg) ==
    LET user_ids == SortedPair(msg.senderUserId, msg.recipientUserId)
    IN  <<HASH>> \o user_ids[1] \o <<HASH>> \o user_ids[2]

\* f"{item_id}#{user_ids[0]}#{user_ids[1]}" with user_ids = sorted([...])
ThreadId(msg) ==
    LET user_ids == SortedPair(msg.senderUserId, msg.recipientUserId)
    IN  msg.itemId \o <<HASH>> \o user_ids[1] \o <<HASH>> \o user_ids[2]

\* the entry made for a thread id met for the first time
NewThread(msg, uid) ==
    LET fromOther == msg.senderUserId # uid
    IN  [threadId |-> ThreadId(msg),
         itemId |-> msg.itemId,
         itemTitle |-> msg.itemTitle,
         itemStatus |-> msg.itemStatus,
         otherUserId |-> IF fromOther THEN msg.senderUserId ELSE msg.recipientUserId,
         otherUserName |-> IF fromOther THEN msg.senderName ELSE msg.recipientName,
         otherUserEmail |-> IF fromOther THEN msg.senderEmail ELSE msg.recipientEmail,
         messages |-> <<>>,
         lastMessageTime |-> msg.createdAt,
         unreadCount |-> 0]

AddMessageLastMet(thread, msg, uid) ==
    [thread EXCEPT
        !.messages = Append(@, msg),
        !.lastMessageTime = msg.createdAt,
        !.unreadCount = IF msg.recipientUserId = uid /\ ~msg.read THEN @ + 1 ELSE @]

AddMessageCountAll(thread, msg, uid) ==
    [thread EXCEPT
        !.messages = Append(@, msg),
        !.lastMessageTime = IF StrLess(@, msg.createdAt) THEN msg.createdAt ELSE @,
        !.unreadCount = IF ~msg.read THEN @ + 1 ELSE @]

\* append, update last message time, count unread
AddMessage(thread, msg, uid) ==
    [thread EXCEPT
        !.messages = Append(@, msg),
        !.lastMessageTime = IF StrLess(@, msg.createdAt) THEN msg.createdAt ELSE @,
        !.unreadCount = IF msg.recipientUserId = uid /\ ~msg.read THEN @ + 1 ELSE @]

\* one pass of "for msg in messages" over the dict of threads, kept in
\* insertion order
RECURSIVE GroupMessages(_, _, _)
GroupMessages(threads, msgs, uid) ==
    IF msgs = <<>> THEN threads
    ELSE LET msg == Head(msgs)
             at  == {k \in 1..Len(threads) : threads[k].threadId = ThreadId(msg)}
         IN  IF at = {}
             THEN GroupMessages(
                     Append(threads, AddMessage(NewThread(msg, uid), msg, uid)),
                     Tail(msgs), uid)
             ELSE LET k == CHOOSE j \in at : TRUE
                  IN  GroupMessages(
                         [threads EXCEPT ![k] = AddMessage(@, msg, uid)],
                         Tail(msgs), uid)

\* list.sort(key=createdAt): stable, ascending
RECURSIVE InsertByCreatedAt(_, _)
InsertByCreatedAt(sorted, msg) ==
    IF sorted = <<>> THEN <<msg>>
    ELSE IF StrLess(msg.createdAt, Head(sorted).createdAt)
    THEN <<msg>> \o sorted
    ELSE <<Head(sorted)>> \o InsertByCreatedAt(Tail(sorted), msg)

RECURSIVE SortByCreatedAt(_)
SortByCreatedAt(msgs) ==
    IF msgs = <<>> THEN <<>>
    ELSE InsertByCreatedAt(SortByCreatedAt(SubSeq(msgs, 1, Len(msgs) - 1)),
                           msgs[Len(msgs)])

\* list.sort(key=lastMessageTime, reverse=True): stable, descending
RECURSIVE InsertByLastMessageTime(_, _)
InsertByLastMessageTime(sorted, thread) ==
    IF sorted = <<>> THEN <<thread>>
    ELSE IF StrLess(Head(sorted).lastMessageTime, thread.lastMessageTime)
    THEN <<thread>> \o sorted
    ELSE <<Head(sorted)>> \o InsertByLastMessageTime(Tail(sorted), thread)

RECURSIVE SortByLastMessageTime(_)
SortByLastMessageTime(threads) ==
    IF threads = <<>> THEN <<>>
    ELSE InsertByLastMessageTime(
            SortByLastMessageTime(SubSeq(threads, 1, Len(threads) - 1)),
            threads[Len(threads)])

RECURSIVE SumUnread(_)
SumUnread(threads) ==
    IF threads = <<>> THEN 0
    ELSE Head(threads).unreadCount + SumUnread(Tail(threads))

ThreadListUnsorted(uid) ==
    LET grouped == GroupMessages(<<>>, FetchMessages(uid), uid)
    IN  [k \in 1..Len(grouped) |->
            [grouped[k] EXCEPT !.messages = SortByCreatedAt(@)]]

ThreadListMessagesAsMet(uid) ==
    SortByLastMessageTime(GroupMessages(<<>>, FetchMessages(uid), uid))

\* the threads of the response
ThreadList(uid) ==
    LET grouped == GroupMessages(<<>>, FetchMessages(uid), uid)
        sorted  == [k \in 1..Len(grouped) |->
                       [grouped[k] EXCEPT !.messages = SortByCreatedAt(@)]]
    IN  SortByLastMessageTime(sorted)

\* the response body of GET /messages for the user uid
MessagesResponse(uid) ==
    LET thread_list == ThreadList(uid)
    IN  [user |-> uid,
         threads |-> thread_list,
         totalThreads |-> Len(thread_list),
         totalMessages |-> Len(FetchMessages(uid)),
         unreadCount |-> SumUnread(thread_list)]

GetMessagesMarksRead(c) ==
    /\ last' = IF ~c.valid
               THEN Response("get_messages",
                             "Unauthorized: Valid authentication required",
                             0, 0, 0)
               ELSE [Response("get_messages", "ok", 0, 0, 0)
                        EXCEPT !.body = MessagesResponse(c.sub)]
    /\ messages' = {[m EXCEPT !.read = @ \/ m.recipientUserId = c.sub] :
                      m \in messages}
    /\ UNCHANGED <<items, recipientIndex, now, writesLeft, pending>>

GetMessages(c) ==
    /\ last' = IF ~c.valid
               THEN Response("get_messages",
                             "Unauthorized: Valid authentication required",
                             0, 0, 0)
               ELSE [Response("get_messages", "ok", 0, 0, 0)
                        EXCEPT !.body = MessagesResponse(c.sub)]
    /\ UNCHANGED <<items, messages, recipientIndex, now, writesLeft, pending>>

---------------------------------------------------------------------------
(* The system *)

Init ==
    /\ items = {}
    /\ messages = {}
    /\ recipientIndex = {}
    /\ now = 0
    /\ writesLeft = MaxMsgs
    /\ last = NoResponse
    /\ pending = NoPending

Next ==
    \/ Open /\ \E p \in ItemPosts : CreateItem(p)
    \/ Open /\ \E r \in ContactRequests, t \in now..MaxTime, fault \in Faults :
                  SendContact(r, t, fault)
    \/ Open /\ \E r \in ReplyRequests, t \in now..MaxTime, fault \in Faults :
                  SendReply(r, t, fault)
    \/ Open /\ \E c \in Claims \cup {NoClaims} : GetMessages(c)
    \/ Open /\ \E m \in messages : Propagate(m.id)

Spec == Init /\ [][Next]_vars

---------------------------------------------------------------------------
(* POST /messages/reply, one lookup or write at a time *)

\* claims and input checks
ReplyBegin(p) ==
    /\ pending[p].stage = "start"
    /\ LET r     == pending[p].request
           valid == ReplyValidation(r)
       IN  IF valid = "ok"
           THEN /\ pending' = [pending EXCEPT ![p].stage = "query1"]
                /\ UNCHANGED last
           ELSE /\ pending' = [pending EXCEPT ![p].stage = "failed",
                                              ![p].outcome = valid]
                /\ last' = [Response("send_reply", valid, 0, 0, 0)
                              EXCEPT !.request = r]
    /\ UNCHANGED <<items, messages, recipientIndex, now, writesLeft>>

\* step 1
ReplyQuery1(p) ==
    /\ pending[p].stage = "query1"
    /\ LET hits == Query1Hits(pending[p].request)
       IN  pending' =
             IF hits # <<>>
             THEN [pending EXCEPT ![p].stage = "write",
                                  ![p].existing = Head(hits), ![p].via = 1]
             ELSE [pending EXCEPT ![p].stage = "query2"]
    /\ UNCHANGED <<items, messages, recipientIndex, now, writesLeft, last>>

\* step 2
ReplyQuery2(p) ==
    /\ pending[p].stage = "query2"
    /\ LET hits == Query2Hits(pending[p].request)
       IN  pending' =
             IF hits # <<>>
             THEN [pending EXCEPT ![p].stage = "write",
                                  ![p].existing = Head(hits), ![p].via = 2]
             ELSE [pending EXCEPT ![p].stage = "scan"]
    /\ UNCHANGED <<items, messages, recipientIndex, now, writesLeft, last>>

\* step 3
ReplyScan(p) ==
    /\ pending[p].stage = "scan"
    /\ LET hits == ScanHits(pending[p].request)
       IN  pending' =
             IF hits # <<>>
             THEN [pending EXCEPT ![p].stage = "write",
                                  ![p].existing = Head(hits), ![p].via = 3]
             ELSE [pending EXCEPT ![p].stage = "item"]
    /\ UNCHANGED <<items, messages, recipientIndex, now, writesLeft, last>>

\* step 4 and the raise that follows it
ReplyItemFetch(p) ==
    /\ pending[p].stage = "item"
    /\ LET r == pending[p].request
           f == FetchItemContext(r)
       IN  IF f.error = "none"
           THEN /\ pending' = [pending EXCEPT ![p].stage = "write",
                                              ![p].existing = f.msg,
                                              ![p].via = 4]
                /\ UNCHANGED last
           ELSE /\ pending' = [pending EXCEPT ![p].stage = "failed",
                                              ![p].via = 4,
                                              ![p].outcome = f.error]
                /\ last' = [Response("send_reply", f.error, 0, 4, 0)
                              EXCEPT !.lookups = f.lookups, !.request = r]
    /\ UNCHANGED <<items, messages, recipientIndex, now, writesLeft>>

\* the record is built and put_item stores it
ReplyPut(p, t) ==
    /\ pending[p].stage = "write"
    /\ t >= now
    /\ LET r == pending[p].request
       IN  /\ messages' = PutItem(ReplyRecord(r, t, pending[p].existing))
           /\ pending' = [pending EXCEPT ![p].stage = "done",
                                         ![p].outcome = "ok",
                                         ![p].messageId = NewMessageId]
           /\ last' = [Response("send_reply", "ok", NewMessageId,
                                pending[p].via, pending[p].existing.id)
                         EXCEPT !.lookups = SubSeq(<<1, 2, 3, 4>>, 1, pending[p].via),
                                !.request = r]
    /\ now' = t
    /\ UNCHANGED <<items, recipientIndex, writesLeft>>

\* The messages table after ScanLimit contact messages about item I2, which
\* Bob posted, sent by Cy at time 0 and all held by the index.
Backlog ==
    { [id |-> k,
       itemId |-> I2,
       itemTitle |-> "bag",
       itemStatus |-> "found",
       recipientUserId |-> Bob.sub,
       recipientEmail |-> Bob.email,
       recipientName |-> UserName(Bob),
       senderUserId |-> Cy.sub,
       senderEmail |-> Cy.email,
       senderName |-> UserName(Cy),
       message |-> MaxMessageLength,
       createdAt |-> Isoformat(0),
       read |-> FALSE] : k \in 1..ScanLimit }

InitScan ==
    /\ items = { [id |-> I2, title |-> "bag", status |-> "found",
                  userId |-> Bob.sub, userEmail |-> Bob.email,
                  userName |-> UserName(Bob)] }
    /\ messages = Backlog
    /\ recipientIndex = 1..ScanLimit
    /\ now = 0
    /\ writesLeft = MaxMsgs
    /\ last = Response("send_contact", "ok", ScanLimit, 0, 0)
    /\ pending = NoPending

\* the system with a messages table of more than ScanLimit items
SpecScan == InitScan /\ [][Next]_vars

\* the contact message Ann sent to Bob about item I2, stored under id
ConversationStart(id) ==
    [id |-> id,
     itemId |-> I2,
     itemTitle |-> "bag",
     itemStatus |-> "found",
     recipientUserId |-> Bob.sub,
     recipientEmail |-> Bob.email,
     recipientName |-> UserName(Bob),
     senderUserId |-> Ann.sub,
     senderEmail |-> Ann.email,
     senderName |-> UserName(Ann),
     message |-> MaxMessageLength,
     createdAt |-> Isoformat(0),
     read |-> FALSE]

\* the replies of that conversation: Bob to Ann, Ann to Bob
ConversationReplies ==
    {r \in WellFormedReplies :
        /\ r.itemId = I2
        /\ {r.claims.sub, r.recipientUserId} = {Ann.sub, Bob.sub}}

\* Two invocations of send_reply with one and the same request start
\* together, on a table that holds the conversation alone or after the
\* backlog, with the conversation's message in the index or not yet.
InitConcurrent ==
    /\ items = { [id |-> I2, title |-> "bag", status |-> "found",
                  userId |-> Bob.sub, userEmail |-> Bob.email,
                  userName |-> UserName(Bob)] }
    /\ \/ /\ messages = {ConversationStart(1)}
          /\ recipientIndex \in {{}, {1}}
       \/ /\ messages = Backlog \cup {ConversationStart(ScanLimit + 1)}
          /\ recipientIndex \in {1..ScanLimit, 1..(ScanLimit + 1)}
    /\ now = 0
    /\ writesLeft = MaxMsgs
    /\ last = NoResponse
    /\ \E r \in ConversationReplies :
          pending = [p \in Invocations |->
                        PendingAt("start", r, NoContext, 0, "none", 0)]

NextConcurrent ==
    \/ \E p \in Invocations : ReplyBegin(p)
    \/ \E p \in Invocations : ReplyQuery1(p)
    \/ \E p \in Invocations : ReplyQuery2(p)
    \/ \E p \in Invocations : ReplyScan(p)
    \/ \E p \in Invocations : ReplyItemFetch(p)
    \/ \E p \in Invocations, t \in now..MaxTime : ReplyPut(p, t)
    \/ \E m \in messages : Propagate(m.id)

SpecConcurrent == InitConcurrent /\ [][NextConcurrent]_vars

\* how many of the backlog's messages the index has not taken in yet
Lagging == 4

\* A client of the conversation re-invokes send_reply until it succeeds,
\* while the index catches up with the table; the table holds the backlog
\* and the conversation's message, the latest of them not in the index yet.
InitRetry ==
    /\ items = { [id |-> I2, title |-> "bag", status |-> "found",
                  userId |-> Bob.sub, userEmail |-> Bob.email,
                  userName |-> UserName(Bob)] }
    /\ messages = Backlog \cup {ConversationStart(ScanLimit + 1)}
    /\ recipientIndex = 1..(ScanLimit - Lagging)
    /\ now = 0
    /\ writesLeft = MaxMsgs
    /\ last = NoResponse
    /\ \E r \in ConversationReplies :
          pending = [p \in Invocations |->
                        IF p = 1
                        THEN PendingAt("retry", r, NoContext, 0, "none", 0)
                        ELSE PendingAt("idle", NoRequest, NoContext, 0, "none", 0)]

\* the client has its success
Succeeded == last.op = "send_reply" /\ last.outcome = "ok"

\* one more invocation by the client, put_item working
Retry ==
    /\ pending[1].stage = "retry"
    /\ ~Succeeded
    /\ \E t \in now..MaxTime : SendReply(pending[1].request, t, "none")

\* the index takes in one more stored message
CatchUp == \E m \in messages : Propagate(m.id)

NextRetry ==
    \/ Retry
    \/ CatchUp

\* the index eventually holds every stored message, and the client keeps
\* re-invoking
SpecRetry ==
    /\ InitRetry
    /\ [][NextRetry]_vars
    /\ WF_vars(Retry)
    /\ WF_vars(CatchUp)

\* POST /contact while the owners update and delete their items, one
\* update_item invocation at a time: both items have been posted.
InitItems ==
    /\ items = { [id |-> p.id, title |-> p.title, status |-> p.status,
                  userId |-> p.claims.sub, userEmail |-> p.claims.email,
                  userName |-> UserName(p.claims)] : p \in ItemPosts }
    /\ messages = {}
    /\ recipientIndex = {}
    /\ now = 0
    /\ writesLeft = MaxMsgs
    /\ last = NoResponse
    /\ pending = NoPending

NextItems ==
    \/ \E c \in Claims, id \in ItemIds : DeleteItem(c, id)
    \/ \E c \in Claims, id \in ItemIds : UpdateItemCheck(1, c, id)
    \/ UpdateItemWrite(1)
    \/ \E r \in WellFormedContacts, t \in now..MaxTime, fault \in Faults :
          SendContact(r, t, fault)

SpecItems == InitItems /\ [][NextItems]_vars

---------------------------------------------------------------------------
(* Properties *)

MessageIdsStored == {m.id : m \in messages}

\* the index holds every stored message
IndexCaughtUp == MessageIdsStored \subseteq recipientIndex

\* the message with sender and recipient exchanged
Swapped(m) ==
    [m EXCEPT !.senderUserId = m.recipientUserId,
              !.recipientUserId = m.senderUserId]

\* C1: the thread id derived from a message (sender A, recipient B, item I)
\* equals the one derived from the message (sender B, recipient A, item I),
\* for every stored message and for every triple of ids of the model.
C1_ThreadKeyOrderIndependent ==
    /\ \A m \in messages : ThreadId(m) = ThreadId(Swapped(m))
    /\ \A i \in ItemIds, a \in Users, b \in Users :
          ThreadId([itemId |-> i, senderUserId |-> a, recipientUserId |-> b])
        = ThreadId([itemId |-> i, senderUserId |-> b, recipientUserId |-> a])

\* two stored messages of one item that go in opposite directions between
\* two different users
C1_Witness ==
    \E m1 \in messages, m2 \in messages :
        /\ m1.itemId = m2.itemId
        /\ m1.senderUserId # m1.recipientUserId
        /\ m1.senderUserId = m2.recipientUserId
        /\ m1.recipientUserId = m2.senderUserId

\* the store holds exactly a contact message from a to b about i and b's
\* reply to it, the reply being the latest write
EndToEnd(a, b, i) ==
    /\ a # b
    /\ last.op = "send_reply" /\ last.outcome = "ok"
    /\ \E m1 \in messages, m2 \in messages :
          /\ messages = {m1, m2}
          /\ m2.id = last.messageId /\ m1.id = last.ctx
          /\ m1.itemId = i /\ m1.senderUserId = a /\ m1.recipientUserId = b
          /\ m2.itemId = i /\ m2.senderUserId = b /\ m2.recipientUserId = a

\* what the scenario expects of GET /messages for a
EndToEndResponse(a, b) ==
    LET resp == MessagesResponse(a)
    IN  /\ Len(resp.threads) = 1
        /\ Len(resp.threads[1].messages) = 2
        /\ ~StrLess(resp.threads[1].messages[2].createdAt,
                    resp.threads[1].messages[1].createdAt)
        /\ resp.threads[1].unreadCount = 1
        /\ resp.threads[1].otherUserId = b

\* C2 as stated: after A's contact message about I and B's reply, GET
\* /messages for A returns one thread of two messages in ascending
\* createdAt order, with unreadCount 1 and otherUserId B.
C2_EndToEnd_AsStated ==
    \A a \in Users, b \in Users, i \in ItemIds :
        EndToEnd(a, b, i) => EndToEndResponse(a, b)

\* C2 amended: the same, once RecipientIndex holds B's reply.
C2_EndToEnd ==
    \A a \in Users, b \in Users, i \in ItemIds :
        EndToEnd(a, b, i) /\ last.messageId \in recipientIndex
            => EndToEndResponse(a, b)

C2_Witness ==
    \E a \in Users, b \in Users, i \in ItemIds :
        EndToEnd(a, b, i) /\ last.messageId \in recipientIndex

\* the stored message m belongs to the conversation the reply r names
InConversation(m, r) ==
    /\ m.itemId = r.itemId
    /\ \/ m.senderUserId = r.claims.sub /\ m.recipientUserId = r.recipientUserId
       \/ m.senderUserId = r.recipientUserId /\ m.recipientUserId = r.claims.sub

\* the step from the current state to the next is send_reply handling r
\* with put_item working (the handler reads the clock once: now' is the
\* instant it read)
RepliesTo(r) ==
    /\ last'.op = "send_reply"
    /\ last'.request = r
    /\ SendReply(r, now', "none")

\* C3: when the two index queries return no matching message but the store
\* holds a message of the requested item between the caller and the
\* recipient, send_reply succeeds and writes the reply with the context of
\* a message of that conversation found by the step-3 scan.
C3_ScanFallback ==
    [][\A r \in ReplyRequests :
          (/\ ReplyValidation(r) = "ok"
           /\ Query1Hits(r) = <<>>
           /\ Query2Hits(r) = <<>>
           /\ \E m \in messages : InConversation(m, r)
           /\ RepliesTo(r))
          => /\ last'.outcome = "ok"
             /\ last'.via = 3
             /\ \E m \in messages : m.id = last'.ctx /\ InConversation(m, r)
             /\ \E new \in messages' \ messages :
                    new.id = last'.messageId /\ InConversation(new, r)]_vars

\* C4: a valid reply request made against an empty message store when the
\* item lookup finds no item fails with ConversationNotFound and writes no
\* message.
C4_TotalMiss ==
    [][\A r \in ReplyRequests :
          (/\ ReplyValidation(r) = "ok"
           /\ messages = {}
           /\ GetItem(r.itemId) = {}
           /\ RepliesTo(r))
          => /\ last'.outcome = ConversationNotFound
             /\ messages' = messages]_vars

\* the step from the current state to the next is send_reply handling r
HandlesReply(r) ==
    /\ last'.op = "send_reply"
    /\ last'.request = r
    /\ \E fault \in Faults : SendReply(r, now', fault)

\* C5 as stated: every send_reply request of an authenticated caller whose
\* recipientUserId is the caller's own id fails with the self-message
\* rejection, whatever the tables hold, and writes nothing.
C5_SelfMessage_AsStated ==
    [][\A r \in ReplyRequests :
          (/\ r.claims.valid
           /\ r.recipientUserId = r.claims.sub
           /\ HandlesReply(r))
          => /\ last'.outcome = SelfMessageRejected
             /\ messages' = messages /\ items' = items]_vars

\* C5 amended: every send_reply request of an authenticated caller that
\* carries an itemId and a message of 1 to 1000 characters and whose
\* recipientUserId is the caller's own id fails with the self-message
\* rejection, whatever the tables hold, and writes nothing.
C5_SelfMessage ==
    [][\A r \in ReplyRequests :
          (/\ r.claims.valid
           /\ r.recipientUserId = r.claims.sub
           /\ r.itemId # Missing
           /\ r.message \in 1..MaxMessageLength
           /\ HandlesReply(r))
          => /\ last'.outcome = SelfMessageRejected
             /\ messages' = messages /\ items' = items]_vars

\* a self-addressed reply was rejected while the tables hold an item and a
\* message
C5_Witness ==
    /\ last.op = "send_reply"
    /\ last.outcome = SelfMessageRejected
    /\ messages # {} /\ items # {}

\* C6: every stored message has senderUserId different from
\* recipientUserId.
C6_NoSelfMessage ==
    \A m \in messages : m.senderUserId # m.recipientUserId

\* C7: whenever send_reply succeeds, the prior message it took its context
\* from has the request's itemId and the pair {caller, recipient} as its
\* {sender, recipient}, and the item title, item status, counterpart name
\* and counterpart email of the new message are those of that prior message.
C7_ContextConsistent ==
    (last.op = "send_reply" /\ last.outcome = "ok") =>
        \E new \in messages, prior \in messages :
            /\ new.id = last.messageId
            /\ prior.id = last.ctx
            /\ prior.id # new.id
            /\ prior.itemId = new.itemId
            /\ {prior.senderUserId, prior.recipientUserId}
                 = {new.senderUserId, new.recipientUserId}
            /\ new.itemTitle = prior.itemTitle
            /\ new.itemStatus = prior.itemStatus
            /\ IF prior.senderUserId = new.recipientUserId
               THEN /\ new.recipientName = prior.senderName
                    /\ new.recipientEmail = prior.senderEmail
               ELSE /\ new.recipientName = prior.recipientName
                    /\ new.recipientEmail = prior.recipientEmail

\* a reply was stored with the context of a message that one of the three
\* message lookups found
C7_Witness ==
    /\ last.op = "send_reply" /\ last.outcome = "ok"
    /\ last.via \in 1..3
    /\ \E new \in messages : new.id = last.messageId

Range(f) == {f[k] : k \in DOMAIN f}

\* every stored message is about item i and the users that appear as sender
\* or recipient are exactly a and b
TwoUsersOneItem(a, b, i) ==
    /\ a # b
    /\ messages # {}
    /\ \A m \in messages : m.itemId = i
    /\ UNION {{m.senderUserId, m.recipientUserId} : m \in messages} = {a, b}

\* C8: when the stored messages involve exactly two users A and B and one
\* item I (and the index holds them all), GET /messages for A and for B each
\* return exactly one thread, and the two threads have the same threadId,
\* the same itemId and the same set of messages.
C8_SymmetricThreads ==
    \A a \in Users, b \in Users, i \in ItemIds :
        TwoUsersOneItem(a, b, i) /\ IndexCaughtUp =>
            LET ta == MessagesResponse(a).threads
                tb == MessagesResponse(b).threads
            IN  /\ Len(ta) = 1 /\ Len(tb) = 1
                /\ ta[1].threadId = tb[1].threadId
                /\ ta[1].itemId = tb[1].itemId
                /\ Range(ta[1].messages) = Range(tb[1].messages)

\* the counts of a response are those of its thread lists
UnreadCountsRight(resp) ==
    /\ \A k \in DOMAIN resp.threads :
          resp.threads[k].unreadCount =
              Cardinality({j \in DOMAIN resp.threads[k].messages :
                             /\ resp.threads[k].messages[j].recipientUserId = resp.user
                             /\ ~resp.threads[k].messages[j].read})
    /\ resp.unreadCount =
          Cardinality({kc \in (DOMAIN resp.threads) \X (1..resp.totalMessages) :
                         kc[2] <= resp.threads[kc[1]].unreadCount})

\* C9: in every response of GET /messages, the unreadCount of each thread is
\* the number of messages of the thread addressed to the requesting user
\* with read false, and the unreadCount of the response is the sum of the
\* unreadCounts of its threads.
C9_UnreadCount ==
    (last.op = "get_messages" /\ last.outcome = "ok")
        => UnreadCountsRight(last.body)

\* a response with a thread that holds an unread message for the user and a
\* message that does not count
C9_Witness ==
    /\ last.op = "get_messages" /\ last.outcome = "ok"
    /\ \E k \in DOMAIN last.body.threads :
          /\ last.body.threads[k].unreadCount >= 1
          /\ last.body.threads[k].unreadCount < Len(last.body.threads[k].messages)

\* the unreadCount GET /messages reports to uid for the thread tid, 0 when
\* the response has no such thread
UnreadReported(uid, tid) ==
    LET threads == MessagesResponse(uid).threads
        at      == {k \in DOMAIN threads : threads[k].threadId = tid}
    IN  IF at = {} THEN 0 ELSE threads[CHOOSE k \in at : TRUE].unreadCount

\* C10: a new message with read false addressed to X adds exactly 1 to the
\* unreadCount of its thread as GET /messages reports it to X (at the step
\* that brings the message into RecipientIndex) and the write leaves the
\* unreadCount of the thread as reported to the sender unchanged.
C10_UnreadIncrement ==
    [][/\ \A m \in messages' \ messages :
             UnreadReported(m.senderUserId, ThreadId(m))'
                 = UnreadReported(m.senderUserId, ThreadId(m))
       /\ \A m \in messages :
             (m.id \in recipientIndex' \ recipientIndex) =>
                 UnreadReported(m.recipientUserId, ThreadId(m))'
                     = UnreadReported(m.recipientUserId, ThreadId(m)) + 1]_vars

\* GET /messages answered with a thread list
Answered == last.op = "get_messages" /\ last.outcome = "ok"

\* C11: the thread list of every response of GET /messages is sorted
\* descending by lastMessageTime: no thread has a lastMessageTime smaller
\* than that of the thread after it.
C11_ThreadsSorted ==
    Answered =>
        \A k \in 1..(Len(last.body.threads) - 1) :
            ~StrLess(last.body.threads[k].lastMessageTime,
                     last.body.threads[k + 1].lastMessageTime)

\* a response with two threads of different lastMessageTime
C11_Witness ==
    /\ Answered
    /\ \E k \in 1..(Len(last.body.threads) - 1) :
          StrLess(last.body.threads[k + 1].lastMessageTime,
                  last.body.threads[k].lastMessageTime)

\* C12: in every thread of a response the messages are in ascending
\* createdAt order, and the messages of one createdAt are in the order in
\* which the handler met them in its input (received messages, then sent).
C12_MessagesSorted ==
    Answered =>
        LET input == FetchMessages(last.body.user)
        IN  \A k \in DOMAIN last.body.threads :
                LET thread == last.body.threads[k]
                    msgs   == thread.messages
                IN  /\ \A j \in 1..(Len(msgs) - 1) :
                          ~StrLess(msgs[j + 1].createdAt, msgs[j].createdAt)
                    /\ \A c \in {msgs[j].createdAt : j \in DOMAIN msgs} :
                          SelectSeq(msgs, LAMBDA m : m.createdAt = c)
                        = SelectSeq(input, LAMBDA m :
                              ThreadId(m) = thread.threadId /\ m.createdAt = c)

\* a response with a thread that holds two different messages of one
\* createdAt
C12_Witness ==
    /\ Answered
    /\ \E k \in DOMAIN last.body.threads :
          \E i, j \in DOMAIN last.body.threads[k].messages :
              /\ i < j
              /\ last.body.threads[k].messages[i] # last.body.threads[k].messages[j]
              /\ last.body.threads[k].messages[i].createdAt
                   = last.body.threads[k].messages[j].createdAt

\* the stored messages in which uid is sender or recipient
InvolvedIn(uid) ==
    {m \in messages : m.senderUserId = uid \/ m.recipientUserId = uid}

C14_AppendOnly ==
    [][\A m \in messages : m \in messages']_vars

\* a message was written to a table that already held one
C14_Witness ==
    /\ last.op \in {"send_contact", "send_reply"} /\ last.outcome = "ok"
    /\ \E m \in messages : m.id = last.messageId
    /\ Cardinality(messages) >= 2

\* C16: whenever put_item on the messages table fails during send_contact
\* or send_reply, the caller gets a store-error failure, never a success
\* response.
C16_StoreFailureReported ==
    [][/\ \A r \in ContactRequests :
             SendContact(r, now, "put") => last'.outcome \in StoreErrors
       /\ \A r \in ReplyRequests :
             SendReply(r, now, "put") => last'.outcome \in StoreErrors]_vars

\* C17: when steps 1 to 3 find no prior message but the items table holds
\* the requested item, send_reply succeeds and writes a message with the
\* item's title and status and the placeholder recipient name and e-mail.
C17_ItemFallback ==
    [][\A r \in ReplyRequests :
          (/\ ReplyValidation(r) = "ok"
           /\ Query1Hits(r) = <<>>
           /\ Query2Hits(r) = <<>>
           /\ ScanHits(r) = <<>>
           /\ GetItem(r.itemId) # {}
           /\ RepliesTo(r))
          => /\ last'.outcome = "ok"
             /\ \E new \in messages' \ messages, item \in GetItem(r.itemId) :
                   /\ new.id = last'.messageId
                   /\ new.itemTitle = item.title
                   /\ new.itemStatus = item.status
                   /\ new.recipientName = "User"
                   /\ new.recipientEmail = NoEmail]_vars

\* the order of the fallback chain
FallbackOrder == <<1, 2, 3, 4>>

\* C18: send_reply goes through its lookups in the order index query by
\* caller, index query by counterpart, scan, item fetch, each at most once,
\* stops at the first that has a hit, and ends either with a written
\* message or with a failure that writes nothing.
C18_LookupOrder ==
    [][\A r \in ReplyRequests :
          HandlesReply(r) =>
             /\ Len(last'.lookups) <= Len(FallbackOrder)
             /\ last'.lookups = SubSeq(FallbackOrder, 1, Len(last'.lookups))
             /\ ReplyValidation(r) = "ok" =>
                   /\ Query1Hits(r) # <<>> => last'.lookups = <<1>>
                   /\ (Query1Hits(r) = <<>> /\ Query2Hits(r) # <<>>)
                         => last'.lookups = <<1, 2>>
                   /\ (Query1Hits(r) = <<>> /\ Query2Hits(r) = <<>>
                                            /\ ScanHits(r) # <<>>)
                         => last'.lookups = <<1, 2, 3>>
                   /\ (Query1Hits(r) = <<>> /\ Query2Hits(r) = <<>>
                                            /\ ScanHits(r) = <<>>)
                         => last'.lookups = <<1, 2, 3, 4>>
             /\ \/ /\ last'.outcome = "ok"
                   /\ \E new \in messages' \ messages : new.id = last'.messageId
                \/ /\ last'.outcome # "ok"
                   /\ messages' = messages]_vars

\* a reply was written after the first index query missed and a later
\* lookup had a hit
C18_Witness ==
    /\ last.op = "send_reply" /\ last.outcome = "ok"
    /\ \E new \in messages : new.id = last.messageId
    /\ last.lookups \in {<<1, 2>>, <<1, 2, 3>>}

\* C20: a send_reply request that lacks itemId, recipientUserId or message,
\* or whose message is longer than the maximum, or that addresses the
\* caller, fails without any of the four lookups and leaves the messages
\* table unchanged.
C20_ValidationFirst ==
    [][\A r \in ReplyRequests :
          (/\ \/ r.itemId = Missing
              \/ r.recipientUserId = Missing
              \/ r.message = 0
              \/ r.message > MaxMessageLength
              \/ r.recipientUserId = r.claims.sub
           /\ HandlesReply(r))
          => /\ last'.outcome # "ok"
             /\ last'.lookups = <<>>
             /\ messages' = messages]_vars

\* a reply with too long a message was refused while the tables hold a
\* message
C20_Witness ==
    /\ last.op = "send_reply"
    /\ last.outcome = "Message must be less than 1000 characters"
    /\ messages # {}

\* both invocations have ended
BothEnded == \A p \in Invocations : pending[p].stage \in {"done", "failed"}

\* C15: two concurrent send_reply invocations for one (itemId, sender,
\* recipient), in any interleaving of their lookups and writes, both succeed
\* when the table holds a message of the conversation, and the table ends
\* up with two new messages of distinct ids.
C15_ConcurrentReplies ==
    (/\ BothEnded
     /\ \A p \in Invocations :
           \E m \in messages : InConversation(m, pending[p].request))
    => /\ \A p \in Invocations : pending[p].stage = "done"
       /\ pending[1].messageId # pending[2].messageId
       /\ \A p \in Invocations :
             \E m \in messages :
                 /\ m.id = pending[p].messageId
                 /\ m.senderUserId = pending[p].request.claims.sub
                 /\ m.recipientUserId = pending[p].request.recipientUserId
                 /\ m.itemId = pending[p].request.itemId

LengthErrors ==
    {"Message must be less than 1000 characters",
     "Validation error: Message must be less than 1000 characters"}

\* the response is one to a send_reply or send_contact request that carries
\* claims and every required field
Written ==
    /\ last.op \in {"send_reply", "send_contact"}
    /\ last.request.claims.valid
    /\ last.request.itemId # Missing
    /\ last.request.message # 0
    /\ last.op = "send_reply" => last.request.recipientUserId # Missing

C22_ReplyInThread ==
    (last.op = "send_reply" /\ last.outcome = "ok")
    => \E m \in messages :
          /\ m.id = last.messageId
          /\ ~m.read
          /\ m.senderUserId = last.request.claims.sub
          /\ m.recipientUserId = last.request.recipientUserId
          /\ m.itemId = last.request.itemId
          /\ \E prior \in messages :
                /\ prior.id = last.ctx
                /\ prior.id # m.id
                /\ ThreadId(prior) = ThreadId(m)

\* a reply was stored whose context is a message the caller had received
C22_Witness ==
    /\ last.op = "send_reply"
    /\ last.outcome = "ok"
    /\ \E m, prior \in messages :
          /\ m.id = last.messageId
          /\ prior.id = last.ctx
          /\ prior.recipientUserId = m.senderUserId
          /\ prior.senderUserId = m.recipientUserId

\* C23: in every get_messages response, each thread's lastMessageTime is
\* the greatest createdAt of the thread's messages, and is the createdAt of
\* the last element of the thread's messages list.
C23_LastMessageTime ==
    Answered =>
        \A k \in DOMAIN last.body.threads :
            LET thread == last.body.threads[k]
                msgs   == thread.messages
            IN  /\ msgs # <<>>
                /\ thread.lastMessageTime = msgs[Len(msgs)].createdAt
                /\ \A j \in DOMAIN msgs :
                      ~StrLess(thread.lastMessageTime, msgs[j].createdAt)

\* a thread was returned whose messages were met latest first
C23_Witness ==
    /\ Answered
    /\ \E k \in DOMAIN last.body.threads :
          LET uid  == last.body.user
              met  == SelectSeq(FetchMessages(uid), LAMBDA m :
                          ThreadId(m) = last.body.threads[k].threadId)
          IN  /\ Len(met) >= 2
              /\ StrLess(met[2].createdAt, met[1].createdAt)

\* C24: in every get_messages response, each thread's otherUserId is not
\* the requesting user, and every message of the thread is between the
\* requesting user and otherUserId, in either direction.
C24_OtherUser ==
    Answered =>
        \A k \in DOMAIN last.body.threads :
            LET thread == last.body.threads[k]
            IN  /\ thread.otherUserId # last.body.user
                /\ \A j \in DOMAIN thread.messages :
                      {thread.messages[j].senderUserId,
                       thread.messages[j].recipientUserId}
                          = {last.body.user, thread.otherUserId}

\* C25: two stored messages that differ in itemId or in their unordered
\* pair of participants have different thread ids.
C25_ThreadIdInjective ==
    \A m1, m2 \in messages :
        ThreadId(m1) = ThreadId(m2)
        => /\ m1.itemId = m2.itemId
           /\ {m1.senderUserId, m1.recipientUserId}
                 = {m2.senderUserId, m2.recipientUserId}

\* get_messages returned two threads whose item id and sorted user ids,
\* written one after the other, give the same string
C25_Witness ==
    /\ Answered
    /\ \E j, k \in DOMAIN last.body.threads :
          /\ j # k
          /\ \E m1, m2 \in messages :
                /\ ThreadId(m1) = last.body.threads[j].threadId
                /\ ThreadId(m2) = last.body.threads[k].threadId
                /\ LET p1 == SortedPair(m1.senderUserId, m1.recipientUserId)
                       p2 == SortedPair(m2.senderUserId, m2.recipientUserId)
                   IN  m1.itemId \o p1[1] \o p1[2] = m2.itemId \o p2[1] \o p2[2]

\* C26: a message written at a later instant than the stored messages has
\* a createdAt string greater than theirs.
C26_ChronologicalStrings ==
    [][now < now'
         => \A m \in messages, w \in messages' \ messages :
               StrLess(m.createdAt, w.createdAt)]_vars

\* C27: a send_contact, send_reply or get_messages request that carries
\* valid claims does not fail with 'Unauthorized', whatever the item record
\* and the message records it reads.
C27_UnauthorizedOnlyWithoutClaims ==
    (/\ last.op \in {"send_contact", "send_reply", "get_messages"}
     /\ last.request.claims.valid)
    => last.outcome # "Unauthorized: Valid authentication required"

\* C28: a get_messages invocation leaves the messages table, the read
\* flag of every message, the index and the items table as they were.
C28_AggregatorReadOnly ==
    [][(last'.op = "get_messages" /\ last' # last)
          => /\ messages' = messages
             /\ recipientIndex' = recipientIndex
             /\ items' = items]_vars

\* get_messages reported unread messages to their recipient, and they are
\* still unread in the table
C28_Witness ==
    /\ Answered
    /\ last.body.unreadCount > 0
    /\ \E m \in messages : m.recipientUserId = last.body.user /\ ~m.read

\* C29: every message a send_reply invocation writes has the thread id of
\* a message the table already held, so that send_reply leaves the set of
\* thread ids in the table as it was.
C29_ReplyStartsNoThread ==
    [][last'.op = "send_reply"
          => /\ \A w \in messages' \ messages :
                   \E m \in messages : ThreadId(m) = ThreadId(w)
             /\ {ThreadId(m) : m \in messages'} = {ThreadId(m) : m \in messages}]_vars

\* the reply just stored is the second message of the table's only thread
C29_Witness ==
    /\ last.op = "send_reply"
    /\ last.outcome = "ok"
    /\ Cardinality(messages) = 2
    /\ Cardinality({ThreadId(m) : m \in messages}) = 1
    /\ \E m \in messages : m.id = last.messageId

\* the position <<thread, place>> of every message of a response
Places(threads) ==
    UNION {{<<k, j>> : j \in DOMAIN threads[k].messages} : k \in DOMAIN threads}

\* C30: once the index holds every stored message, a get_messages response
\* holds no message id at two places of its threads, and its totalMessages
\* is the number of stored messages the user sent or received.
C30_NoDuplicates ==
    (Answered /\ IndexCaughtUp) =>
        LET threads == last.body.threads
        IN  /\ \A p, q \in Places(threads) :
                  threads[p[1]].messages[p[2]].id = threads[q[1]].messages[q[2]].id
                  => p = q
            /\ last.body.totalMessages = Cardinality(InvolvedIn(last.body.user))

====
